---- MODULE Spec2Model ----
(***************************************************************************)
(* A model of data_modules/spikeplots.py: the plotting helpers for         *)
(* spike-sorted retinal ganglion cell data.  Every helper is a function of *)
(* the data container it is given plus the plotting surface (the axes) it  *)
(* draws on.  The state is the container, the surface after the call, the  *)
(* call's arguments and its outcome; add_identity is the one helper that   *)
(* leaves a callback behind, so its axes keep changing after it.           *)
(*                                                                         *)
(* Numbers.  Coordinates, grid sizes and waveform samples are integers.    *)
(* sd_mult is carried in tenths (13 is the source's 1.3), so an ellipse's  *)
(* width and height are in tenths of a surface unit.  Means and variances  *)
(* are exact rationals [num, den]; a standard deviation is the square root *)
(* of the variance the model carries.                                      *)
(***************************************************************************)
EXTENDS Integers, Sequences, FiniteSets, TLC

VARIABLES
  container,  \* the data container the helpers read (never written)
  call,       \* the helper called last and its arguments
  fig,        \* the plotting surface: the panels (axes) and the figure's texts
  ret,        \* the outcome of the call: its status and what it returned
  identity    \* add_identity's line, once it exists

vars == <<container, call, fig, ret, identity>>

(***************************************************************************)
(* Bounds of the model.                                                    *)
(***************************************************************************)
MaxID == 2

MaxLen == 3

MaxTypeLen == 2

MaxLim == 4

(***************************************************************************)
(* Python values.                                                          *)
(***************************************************************************)
\* An optional argument: None is the empty tuple, a given value v is <<v>>.
None == <<>>

Some(v) == <<v>>

IDs == 1..MaxID

\* Every list of cluster IDs of at most MaxLen entries (duplicates allowed).
Lists == UNION {[1..n -> IDs] : n \in 0..MaxLen}

RECURSIVE SeqMin(_)
SeqMin(s) ==
  IF Len(s) = 1 THEN s[1]
  ELSE LET m == SeqMin(Tail(s)) IN IF s[1] < m THEN s[1] ELSE m

RECURSIVE SeqMax(_)
SeqMax(s) ==
  IF Len(s) = 1 THEN s[1]
  ELSE LET m == SeqMax(Tail(s)) IN IF s[1] > m THEN s[1] ELSE m

Digit == <<"0", "1", "2", "3", "4", "5", "6", "7", "8", "9">>

\* str(n) for a natural number: its decimal digits.
RECURSIVE str(_)
str(n) == IF n < 10 THEN Digit[n + 1] ELSE str(n \div 10) \o Digit[(n % 10) + 1]

(***************************************************************************)
(* The STA fits of the data container.                                     *)
(***************************************************************************)
FitSet ==
  { [x0 |-> 1, y0 |-> 4, SigmaX |-> 1, SigmaY |-> 2, Theta |-> 0,
     RedTimeCourse |-> <<1, 2, 3>>, BlueTimeCourse |-> <<0, 1, 0>>],
    [x0 |-> 3, y0 |-> 2, SigmaX |-> 2, SigmaY |-> 1, Theta |-> 45,
     RedTimeCourse |-> <<3, 2, 1>>, BlueTimeCourse |-> <<2, 1, 2>>],
    [x0 |-> 2, y0 |-> 7, SigmaX |-> 3, SigmaY |-> 3, Theta |-> 90,
     RedTimeCourse |-> <<0, 0, 4>>, BlueTimeCourse |-> <<1, 1, 1>>] }

\* d_sta: a fit for some of the clusters.
FitMappings == UNION {[S -> FitSet] : S \in SUBSET IDs}

GridSizes == {2, 30}

Scalings == {5}

SdMults == {10, 13}

(***************************************************************************)
(* The plotting surface.                                                   *)
(***************************************************************************)
\* plt.subplots(): a new, empty axes with matplotlib's unit limits.
NewAxes ==
  [xlim |-> <<0, 1>>, ylim |-> <<0, 1>>, artists |-> <<>>, texts |-> <<>>,
   lines |-> <<>>, fills |-> <<>>, hist |-> <<>>, title |-> "",
   xlabel |-> "", ylabel |-> "", xticks |-> "auto", yticks |-> "auto",
   legend |-> FALSE]

\* Axes a caller made, and perhaps drew on, before the call.
CallerAxes ==
  [NewAxes EXCEPT !.xlim = <<-7, 9>>, !.ylim = <<100, 200>>,
                  !.texts = <<[at |-> <<1, 1>>, s |-> "old"]>>,
                  !.xlabel = "x", !.ylabel = "y"]

\* The surface: the panels in order, whether plt.subplots made them with
\* sharex/sharey (a limit set on one panel is then the limit of all), and the
\* texts written on the figure itself.
Figure(panels, sharex, sharey) ==
  [panels |-> panels, sharex |-> sharex, sharey |-> sharey, texts |-> <<>>]

NoFigure == Figure(<<>>, FALSE, FALSE)

set_xlim(ax, lo, hi) == [ax EXCEPT !.xlim = <<lo, hi>>]

set_ylim(ax, lo, hi) == [ax EXCEPT !.ylim = <<lo, hi>>]

(***************************************************************************)
(* get_rf_ells                                                             *)
(***************************************************************************)
\* A slip: the half-axes are passed where Ellipse wants the full axes.
Ellipse_half_axes(fit, NOISE_GRID_SIZE, sd_mult) ==
  [center |-> <<fit.x0 * NOISE_GRID_SIZE, fit.y0 * NOISE_GRID_SIZE>>,
   width |-> fit.SigmaX * NOISE_GRID_SIZE * sd_mult,
   height |-> fit.SigmaY * NOISE_GRID_SIZE * sd_mult,
   angle |-> fit.Theta]

\* Ellipse(xy, width, height, angle) for one cluster's fit.
Ellipse(fit, NOISE_GRID_SIZE, sd_mult) ==
  [center |-> <<fit.x0 * NOISE_GRID_SIZE, fit.y0 * NOISE_GRID_SIZE>>,
   width |-> fit.SigmaX * 2 * NOISE_GRID_SIZE * sd_mult,
   height |-> fit.SigmaY * 2 * NOISE_GRID_SIZE * sd_mult,
   angle |-> fit.Theta]

\* A slip: IDs without a fit are skipped (d_sta.get) instead of failing.
get_rf_ells_skipping(ls_cells, d_sta, NOISE_GRID_SIZE, sd_mult) ==
  LET fitted == SelectSeq(ls_cells, LAMBDA c : c \in DOMAIN d_sta)
  IN  [status |-> "ok",
       ells |-> [i \in 1..Len(fitted) |->
                   Ellipse(d_sta[fitted[i]], NOISE_GRID_SIZE, sd_mult)]]

\* The list comprehension: d_sta[n_ID] raises KeyError at the first absent ID,
\* and then no list is built at all.
get_rf_ells(ls_cells, d_sta, NOISE_GRID_SIZE, sd_mult) ==
  IF \E i \in 1..Len(ls_cells) : ls_cells[i] \notin DOMAIN d_sta
  THEN [status |-> "KeyError", ells |-> <<>>]
  ELSE [status |-> "ok",
        ells |-> [i \in 1..Len(ls_cells) |->
                    Ellipse(d_sta[ls_cells[i]], NOISE_GRID_SIZE, sd_mult)]]

(***************************************************************************)
(* plot_rfs                                                                *)
(***************************************************************************)
\* The defaults of plot_rfs: sd_mult=1.3 and alpha=0.6 in tenths, lw=1.
SdMultDefault == 13

Alpha == 6

Lw == 1

Pad == 400

DefaultLim == 5000

Colors == {"C0"}

\* np.random.rand(3): some colour the caller did not choose.
RandomColors == {"rand1", "rand2"}

\* facecolor: one colour for all the ellipses, or a list of one per ellipse.
FaceColors ==
  { [kind |-> "str", value |-> <<"k">>],
    [kind |-> "list", value |-> <<"r", "g">>] }

\* An ellipse on the axes as the styling loop of lines 103-109 leaves it;
\* "default" and 0 stand for the patch defaults of what the loop did not set.
Artist(ell, alpha, edgecolor, facecolor, lw) ==
  [ell |-> ell, alpha |-> alpha, edgecolor |-> edgecolor,
   facecolor |-> facecolor, lw |-> lw]

\* Lines 87-90: without SCALING the grid size of the container is used and the
\* limits are set to the whole array; a given SCALING leaves the limits alone.
default_lims(ax, SCALING) ==
  IF SCALING = None
  THEN set_ylim(set_xlim(ax, 0, DefaultLim), 0, DefaultLim)
  ELSE ax

\* A slip: the y range is computed from the x centres.
auto_zoom_from_x(ax, ells, b_zoom) ==
  LET x0s == [i \in 1..Len(ells) |-> ells[i].center[1]]
  IN  IF b_zoom /\ Len(ells) > 0
      THEN [status |-> "ok",
            ax |-> set_ylim(set_xlim(ax, SeqMin(x0s) - Pad, SeqMax(x0s) + Pad),
                            SeqMin(x0s) - Pad, SeqMax(x0s) + Pad)]
      ELSE [status |-> "ok", ax |-> ax]

\* A slip: no guard on the number of ellipses, so that np.min of no centres
\* raises ValueError.
auto_zoom_unguarded(ax, ells, b_zoom) ==
  LET x0s == [i \in 1..Len(ells) |-> ells[i].center[1]]
      y0s == [i \in 1..Len(ells) |-> ells[i].center[2]]
  IN  IF ~b_zoom
      THEN [status |-> "ok", ax |-> ax]
      ELSE IF Len(ells) = 0
      THEN [status |-> "ValueError", ax |-> ax]
      ELSE [status |-> "ok",
            ax |-> set_ylim(set_xlim(ax, SeqMin(x0s) - Pad, SeqMax(x0s) + Pad),
                            SeqMin(y0s) - Pad, SeqMax(y0s) + Pad)]

\* Lines 117-125: the zoom onto the ellipse centres.  np.min and np.max of no
\* centres at all would raise ValueError; the guard keeps them from running.
auto_zoom(ax, ells, b_zoom) ==
  LET x0s == [i \in 1..Len(ells) |-> ells[i].center[1]]
      y0s == [i \in 1..Len(ells) |-> ells[i].center[2]]
  IN  IF b_zoom /\ Len(ells) > 0
      THEN [status |-> "ok",
            ax |-> set_ylim(set_xlim(ax, SeqMin(x0s) - Pad, SeqMax(x0s) + Pad),
                            SeqMin(y0s) - Pad, SeqMax(y0s) + Pad)]
      ELSE [status |-> "ok", ax |-> ax]

\* plot_rfs up to its return or its fault.  rnd is the draw of
\* np.random.rand(3), used only when ell_color is not given.
plot_rfs(spikeout, ls_cells, ell_color, ax, sd_mult, alpha, facecolor, SCALING, b_label, b_zoom, lw, rnd) ==
  LET ax0 == IF ax = None THEN NewAxes ELSE ax[1]
      scaling == IF SCALING = None THEN spikeout.NOISE_GRID_SIZE ELSE SCALING[1]
      ax1 == default_lims(ax0, SCALING)
      color == IF ell_color = None THEN rnd ELSE ell_color[1]
      got == get_rf_ells(ls_cells, spikeout.d_sta, scaling, sd_mult)
      ells == got.ells
      n == Len(ells)
      ls_facecolors == IF facecolor.kind = "str"
                       THEN [i \in 1..n |-> facecolor.value[1]]
                       ELSE facecolor.value
      \* the ellipses the loop styles completely
      k == IF Len(ls_facecolors) < n THEN Len(ls_facecolors) ELSE n
      styled == [i \in 1..k |-> Artist(ells[i], alpha, color, ls_facecolors[i], lw)]
      \* the ellipse at which ls_facecolors[idx_ell] is out of range
      broken == IF k < n
                THEN <<Artist(ells[k + 1], alpha, color, "default", 0)>>
                ELSE <<>>
      ax2 == [ax1 EXCEPT !.artists = @ \o styled \o broken]
      ax3 == IF b_label
             THEN [ax2 EXCEPT !.texts = @ \o
                    [i \in 1..n |-> [at |-> ells[i].center, s |-> str(ls_cells[i])]]]
             ELSE ax2
      zoomed == auto_zoom(ax3, ells, b_zoom)
  IN  IF got.status # "ok"
      THEN [status |-> got.status, ax |-> ax1, ells |-> <<>>]
      ELSE IF k < n
      THEN [status |-> "IndexError", ax |-> ax2, ells |-> <<>>]
      ELSE [status |-> zoomed.status, ax |-> zoomed.ax,
            ells |-> IF zoomed.status = "ok" THEN ells ELSE <<>>]

(***************************************************************************)
(* numpy's reductions, over exact rationals.                               *)
(***************************************************************************)
Rat(n, d) == [num |-> n, den |-> d]

\* What numpy returns (with a RuntimeWarning, not an exception) for the mean,
\* standard deviation or median of nothing.
NaN == Rat(0, 0)

RECURSIVE ColSum(_, _)
ColSum(rows, j) == IF rows = <<>> THEN 0 ELSE rows[1][j] + ColSum(Tail(rows), j)

\* np.mean(arr, axis=0) of an array of Len(rows) rows and ncols columns.
np_mean(rows, ncols) ==
  [j \in 1..ncols |->
     IF rows = <<>> THEN NaN ELSE Rat(ColSum(rows, j), Len(rows))]

\* The sum over the rows of (n*x - S)^2, that is n^2 times the sum of the
\* squared deviations of column j from its mean S/n.
RECURSIVE SqDevSum(_, _, _, _)
SqDevSum(rows, j, n, S) ==
  IF rows = <<>> THEN 0
  ELSE (n * rows[1][j] - S) * (n * rows[1][j] - S) + SqDevSum(Tail(rows), j, n, S)

\* np.var(arr, axis=0), ddof=0: the mean of the squared deviations.
np_var(rows, ncols) ==
  [j \in 1..ncols |->
     IF rows = <<>> THEN NaN
     ELSE LET n == Len(rows)
          IN  Rat(SqDevSum(rows, j, n, ColSum(rows, j)), n * n * n)]

\* np.std(arr, axis=0): per column, the square root of the variance it holds.
np_std(rows, ncols) == [j \in 1..ncols |-> [sqrt_of |-> np_var(rows, ncols)[j]]]

(***************************************************************************)
(* plot_type_rfs                                                           *)
(***************************************************************************)
\* Python dicts keep insertion order: list(d.keys()).
KeyOrder == <<"OnP", "OffP">>

keys_of(d) == SelectSeq(KeyOrder, LAMBDA k : k \in DOMAIN d)

\* sns.color_palette(): the ten colours of the default palette.
Palette == <<"p0", "p1", "p2", "p3", "p4", "p5", "p6", "p7", "p8", "p9">>

\* A slip: the list is passed on as it is.
fitted_cells_unfiltered(ls_cells, d_sta) == ls_cells

\* [c for c in ls_cells if c in data.d_sta.keys()]
fitted_cells(ls_cells, d_sta) == SelectSeq(ls_cells, LAMBDA c : c \in DOMAIN d_sta)

\* The new figure of plt.subplots(ncols=ncols, sharey=True, sharex=True) with
\* the experiment's name written on it.
new_type_figure(data, ncols) ==
  [Figure([i \in 1..ncols |-> NewAxes], TRUE, TRUE) EXCEPT
     !.texts = <<data.str_experiment \o " " \o data.str_chunk>>]

\* What a limit set on panel i does to the panels that share its axes.
share_lims(f, panels, i) ==
  [j \in 1..Len(panels) |->
     [panels[j] EXCEPT
        !.xlim = IF f.sharex THEN panels[i].xlim ELSE @,
        !.ylim = IF f.sharey THEN panels[i].ylim ELSE @]]

\* The loop of lines 154-164 from key i on.  a holds the arguments.
RECURSIVE type_rfs_loop(_, _, _)
type_rfs_loop(a, f, i) ==
  IF i > Len(a.ls_RGC_keys) THEN [status |-> "ok", fig |-> f]
  ELSE IF a.ls_RGC_keys[i] \notin DOMAIN a.d_IDs
  THEN [status |-> "KeyError", fig |-> f]
  ELSE IF i > Len(a.ls_colors) \/ i > Len(a.ls_facecolors)
       \/ i > Len(a.ls_RGC_labels) \/ i > Len(f.panels)
  THEN [status |-> "IndexError", fig |-> f]
  ELSE
    LET ls_cells == fitted_cells(a.d_IDs[a.ls_RGC_keys[i]], a.data.d_sta)
        r == plot_rfs(a.data, ls_cells, Some(a.ls_colors[i]), Some(f.panels[i]),
                      a.sd_mult, a.alpha,
                      [kind |-> "str", value |-> <<a.ls_facecolors[i]>>],
                      None, FALSE, a.b_zoom, Lw, "unused")
        drawn == [f EXCEPT !.panels = share_lims(f, [f.panels EXCEPT ![i] = r.ax], i)]
        title == a.ls_RGC_labels[i] \o " (n=" \o str(Len(ls_cells)) \o ") RFs"
    IN  IF r.status # "ok" THEN [status |-> r.status, fig |-> drawn]
        ELSE type_rfs_loop(a, [drawn EXCEPT !.panels[i].title = title], i + 1)

\* Lines 166-171.
ticks_off(ax) ==
  [ax EXCEPT !.xlabel = "", !.ylabel = "", !.xticks = "off", !.yticks = "off"]

plot_type_rfs(data, ls_RGC_keys, ls_colors, axs, ls_facecolors, alpha, b_ticks_off, ls_RGC_labels, d_IDs, b_zoom, sd_mult) ==
  LET ids == IF d_IDs = None THEN data.d_main_IDs ELSE d_IDs[1]
      keys == IF ls_RGC_keys = None THEN keys_of(ids) ELSE ls_RGC_keys[1]
      ncols == Len(keys)
      f0 == IF axs = None THEN new_type_figure(data, ncols) ELSE axs[1]
      a == [data |-> data, d_IDs |-> ids, ls_RGC_keys |-> keys,
            ls_colors |-> ls_colors,
            ls_facecolors |-> IF ls_facecolors = None THEN ls_colors
                              ELSE ls_facecolors[1],
            ls_RGC_labels |-> IF ls_RGC_labels = None THEN keys
                              ELSE ls_RGC_labels[1],
            alpha |-> alpha, b_zoom |-> b_zoom, sd_mult |-> sd_mult]
      r == type_rfs_loop(a, f0, 1)
  IN  IF r.status = "ok" /\ b_ticks_off
      THEN [status |-> "ok",
            fig |-> [r.fig EXCEPT !.panels =
                       [j \in 1..Len(r.fig.panels) |-> ticks_off(r.fig.panels[j])]]]
      ELSE r

(***************************************************************************)
(* plot_type_tcs                                                           *)
(***************************************************************************)
\* Line 201: the clusters of a cell type are read from the container's own
\* mapping, whatever d_IDs the caller gave.
tcs_type_cells(data, d_IDs, str_key) ==
  IF str_key \in DOMAIN data.d_main_IDs
  THEN [status |-> "ok", ls_cells |-> data.d_main_IDs[str_key]]
  ELSE [status |-> "KeyError", ls_cells |-> <<>>]

\* np.array([d_sta[n_ID][channel] for n_ID in ls_cells]): one row per cluster.
timecourses(d_sta, ls_cells, channel) ==
  [i \in 1..Len(ls_cells) |->
     IF channel = "RedTimeCourse" THEN d_sta[ls_cells[i]].RedTimeCourse
     ELSE d_sta[ls_cells[i]].BlueTimeCourse]

\* Lines 210-215 (and 217-222) for a group of at least one cluster: the mean
\* line and the band from mean - std to mean + std over np.arange(len(mean)).
mean_band(ax, tcs, color, alpha, lw) ==
  LET T == Len(tcs[1])
      mean == np_mean(tcs, T)
      std == np_std(tcs, T)
  IN  [ax EXCEPT
         !.lines = Append(@, [y |-> mean, c |-> color, lw |-> lw]),
         !.fills = Append(@, [x |-> [j \in 1..T |-> j - 1], mean |-> mean,
                              std |-> std, color |-> color, alpha |-> alpha])]

\* Lines 225-227: the two waveforms of every cluster.
RECURSIVE trace_lines(_, _, _, _, _)
trace_lines(d_sta, ls_cells, ls_colors, alpha, lw) ==
  IF ls_cells = <<>> THEN <<>>
  ELSE <<[y |-> d_sta[ls_cells[1]].RedTimeCourse, c |-> ls_colors[1],
          alpha |-> alpha, lw |-> lw],
         [y |-> d_sta[ls_cells[1]].BlueTimeCourse, c |-> ls_colors[2],
          alpha |-> alpha, lw |-> lw]>>
       \o trace_lines(d_sta, Tail(ls_cells), ls_colors, alpha, lw)

\* A slip in the other direction: an empty group is given an empty panel.
tcs_panel_guarded(a, ax, ls_cells, str_label) ==
  [status |-> "ok",
   ax |-> [ax EXCEPT
             !.lines = Append(@, [axhline |-> 0, c |-> "k", lw |-> 1])
                       \o (IF a.b_plot_mean THEN <<>>
                           ELSE trace_lines(a.data.d_sta, ls_cells, a.ls_colors,
                                            a.alpha, a.lw)),
             !.title = str_label \o " (n=" \o str(Len(ls_cells)) \o ") timecourses"]]

\* Lines 204-230 for one panel.  With no cluster left in mean mode, np.array([])
\* has no second axis: its mean over axis 0 is the scalar nan, plot(nan) draws
\* a one-point line, and len(mean) of a scalar raises TypeError.
tcs_panel(a, ax, ls_cells, str_label) ==
  LET ax0 == [ax EXCEPT !.lines = Append(@, [axhline |-> 0, c |-> "k", lw |-> 1])]
      red == timecourses(a.data.d_sta, ls_cells, "RedTimeCourse")
      blue == timecourses(a.data.d_sta, ls_cells, "BlueTimeCourse")
      title == str_label \o " (n=" \o str(Len(ls_cells)) \o ") timecourses"
  IN  IF a.b_plot_mean /\ ls_cells = <<>>
      THEN [status |-> "TypeError",
            ax |-> [ax0 EXCEPT !.lines =
                      Append(@, [y |-> <<NaN>>, c |-> a.ls_colors[1], lw |-> a.lw])]]
      ELSE IF a.b_plot_mean
      THEN [status |-> "ok",
            ax |-> [mean_band(mean_band(ax0, red, a.ls_colors[1], a.alpha, a.lw),
                              blue, a.ls_colors[2], a.alpha, a.lw)
                      EXCEPT !.title = title]]
      ELSE [status |-> "ok",
            ax |-> [ax0 EXCEPT
                      !.lines = @ \o trace_lines(a.data.d_sta, ls_cells,
                                                 a.ls_colors, a.alpha, a.lw),
                      !.title = title]]

\* The loop of lines 200-230 from key i on.
RECURSIVE type_tcs_loop(_, _, _)
type_tcs_loop(a, f, i) ==
  IF i > Len(a.ls_RGC_keys) THEN [status |-> "ok", fig |-> f]
  ELSE
    LET got == tcs_type_cells(a.data, a.d_IDs, a.ls_RGC_keys[i])
    IN  IF got.status # "ok" THEN [status |-> got.status, fig |-> f]
        ELSE IF i > Len(a.ls_RGC_labels) \/ i > Len(f.panels)
        THEN [status |-> "IndexError", fig |-> f]
        ELSE
          LET ls_cells == fitted_cells(got.ls_cells, a.data.d_sta)
              r == tcs_panel(a, f.panels[i], ls_cells, a.ls_RGC_labels[i])
              drawn == [f EXCEPT !.panels[i] = r.ax]
          IN  IF r.status # "ok" THEN [status |-> r.status, fig |-> drawn]
              ELSE type_tcs_loop(a, drawn, i + 1)

plot_type_tcs(data, ls_RGC_keys, axs, ls_colors, alpha, b_plot_mean, ls_RGC_labels, lw, d_IDs) ==
  LET ids == IF d_IDs = None THEN data.d_main_IDs ELSE d_IDs[1]
      keys == IF ls_RGC_keys = None THEN keys_of(ids) ELSE ls_RGC_keys[1]
      f0 == IF axs = None THEN new_type_figure(data, Len(keys)) ELSE axs[1]
      a == [data |-> data, d_IDs |-> ids, ls_RGC_keys |-> keys,
            ls_colors |-> IF ls_colors = None THEN <<"C1", "C0">> ELSE ls_colors[1],
            ls_RGC_labels |-> IF ls_RGC_labels = None THEN keys
                              ELSE ls_RGC_labels[1],
            alpha |-> alpha, b_plot_mean |-> b_plot_mean, lw |-> lw]
  IN  type_tcs_loop(a, f0, 1)

(***************************************************************************)
(* plot_crf                                                                *)
(***************************************************************************)
\* The position of id in cluster_ids, counted from 0 as numpy does.
RECURSIVE index_of(_, _)
index_of(id, cluster_ids) ==
  IF cluster_ids[1] = id THEN 0 ELSE 1 + index_of(id, Tail(cluster_ids))

\* ctio.map_ids_to_idx: the row index of every ID of the type.
map_ids_to_idx(type_ids, cluster_ids) ==
  [i \in 1..Len(type_ids) |-> index_of(type_ids[i], cluster_ids)]

\* A slip: the whole matrix is reduced, not the rows of the type.
take_rows_all(arr, type_idx) == arr

\* arr[type_idx, :]: the rows at the given 0-based indices, in their order.
take_rows(arr, type_idx) == [i \in 1..Len(type_idx) |-> arr[type_idx[i] + 1]]

\* Lines 31-39 for the type at position idx (0-based) of ls_types: the marked
\* mean line and the band from mean - std to mean + std.
crf_type(spikeout, ax, idx, str_type) ==
  LET contrast_vals == spikeout.d_crf.contrast
      type_ids == spikeout.d_main_IDs[str_type]
      type_idx == map_ids_to_idx(type_ids, spikeout.d_crf.cluster_id)
      arr_f1_amp == take_rows(spikeout.d_crf.amp, type_idx)
      mean == np_mean(arr_f1_amp, Len(contrast_vals))
      std == np_std(arr_f1_amp, Len(contrast_vals))
      color == "C" \o str(idx)
  IN  [ax EXCEPT
         !.lines = Append(@, [x |-> contrast_vals, y |-> mean, marker |-> "o",
                              c |-> color, label |-> str_type]),
         !.fills = Append(@, [x |-> contrast_vals, mean |-> mean, std |-> std,
                              color |-> color, alpha |-> 2])]

RECURSIVE crf_loop(_, _, _, _)
crf_loop(spikeout, ax, ls_types, i) ==
  IF i > Len(ls_types) THEN [status |-> "ok", ax |-> ax]
  ELSE IF ls_types[i] \notin DOMAIN spikeout.d_main_IDs
  THEN [status |-> "KeyError", ax |-> ax]
  ELSE crf_loop(spikeout, crf_type(spikeout, ax, i - 1, ls_types[i]), ls_types, i + 1)

plot_crf(spikeout, ax, ls_types) ==
  LET types == IF ls_types = None THEN spikeout.ls_RGC_labels ELSE ls_types[1]
      ax0 == IF ax = None THEN NewAxes ELSE ax[1]
      r == crf_loop(spikeout, ax0, types, 1)
  IN  IF r.status # "ok" THEN r
      ELSE [status |-> "ok",
            ax |-> [r.ax EXCEPT !.xlabel = "Contrast",
                                !.xticks = spikeout.d_crf.contrast,
                                !.ylabel = "F1 peak-trough amplitude (Hz)",
                                !.legend = TRUE]]

(***************************************************************************)
(* plot_isi_qc                                                             *)
(***************************************************************************)
\* A slip: the index set is ignored and every cluster is taken.
take_all(arr, c_idx) == arr

\* arr[c_idx] for a list of 0-based indices.
take(arr, c_idx) == [i \in 1..Len(c_idx) |-> arr[c_idx[i] + 1]]

\* The sequence xs with x put in before the first entry greater than it.
RECURSIVE insert_sorted(_, _)
insert_sorted(x, xs) ==
  IF xs = <<>> THEN <<x>>
  ELSE IF x <= xs[1] THEN <<x>> \o xs
  ELSE <<xs[1]>> \o insert_sorted(x, Tail(xs))

RECURSIVE sorted(_)
sorted(xs) == IF xs = <<>> THEN <<>> ELSE insert_sorted(xs[1], sorted(Tail(xs)))

\* np.median: the middle of the sorted values, or the mean of the two middle
\* ones; nan for no values.
np_median(xs) ==
  LET s == sorted(xs)
      n == Len(xs)
  IN  IF n = 0 THEN NaN
      ELSE IF n % 2 = 1 THEN Rat(s[(n + 1) \div 2], 1)
      ELSE Rat(s[n \div 2] + s[(n \div 2) + 1], 2)

\* f'{median:.2f}' for a median of non-negative whole numbers, which is a whole
\* number or a whole number and a half.
fmt_2f(q) ==
  IF q.den = 0 THEN "nan"
  ELSE str(q.num \div q.den) \o (IF q.num % q.den = 0 THEN ".00" ELSE ".50")

\* Lines 55-63 for panel p_idx (0-based) and its index set.
isi_panel(spikeout, ax, p_idx, c_idx) ==
  LET data == take(spikeout.pct_refractory, c_idx)
      median == np_median(data)
  IN  [ax EXCEPT
         !.hist = Append(@, [data |-> data, color |-> "C" \o str(p_idx),
                             alpha |-> 5]),
         !.ylabel = "Number of clusters",
         !.yticks = "labelleft",
         !.xlabel = "Percent of spikes within refractory period.",
         !.lines = Append(@, [axvline |-> median, c |-> "k", linestyle |-> "--"]),
         !.texts = Append(@, [at |-> <<95, 95>>,
                              s |-> "Median = " \o fmt_2f(median) \o "%"])]

plot_isi_qc(spikeout, axs) ==
  LET f0 == IF axs = None
            THEN Figure(<<NewAxes, NewAxes>>, FALSE, TRUE)
            ELSE axs[1]
      bad_idx == spikeout.bad_isi_idx
      good_idx == spikeout.good_isi_idx
      p0 == isi_panel(spikeout, f0.panels[1], 0, bad_idx)
      p1 == isi_panel(spikeout, f0.panels[2], 1, good_idx)
  IN  [status |-> "ok",
       fig |-> [f0 EXCEPT !.panels =
                  <<[p0 EXCEPT !.title = "ISI violations n = " \o str(Len(bad_idx))],
                    [p1 EXCEPT !.title = "ISI OK n = " \o str(Len(good_idx))]>>]]

(***************************************************************************)
(* add_identity                                                            *)
(***************************************************************************)
Max2(a, b) == IF a > b THEN a ELSE b

Min2(a, b) == IF a < b THEN a ELSE b

\* A slip: the line is spanned between the outer limits, not the inner ones.
callback_outer(axes) ==
  LET low == Min2(axes.xlim[1], axes.ylim[1])
      high == Max2(axes.xlim[2], axes.ylim[2])
  IN  [axes |-> axes, data |-> [xdata |-> <<low, high>>, ydata |-> <<low, high>>]]

\* The closure of lines 10-15: what it leaves of the axes it is called with,
\* and the data it gives the identity line.
callback(axes) ==
  LET low == Max2(axes.xlim[1], axes.ylim[1])
      high == Min2(axes.xlim[2], axes.ylim[2])
  IN  [axes |-> axes, data |-> [xdata |-> <<low, high>>, ydata |-> <<low, high>>]]

\* add_identity: the line is plotted empty, the callback is run once and then
\* connected to both of the axes' limit signals.
add_identity(axes) ==
  LET ran == callback(axes)
  IN  [axes |-> ran.axes,
       identity |-> [data |-> ran.data,
                     connected |-> {"xlim_changed", "ylim_changed"}]]

\* axes.callbacks.process(signal, axes), as set_xlim and set_ylim end: the
\* callback runs if it is connected to the signal.
process(signal, axes, line) ==
  IF signal \in line.connected
  THEN LET ran == callback(axes)
       IN  [axes |-> ran.axes, identity |-> [line EXCEPT !.data = ran.data]]
  ELSE [axes |-> axes, identity |-> line]

(***************************************************************************)
(* The data container (spikeoutputs.SpikeOutputs), as far as it is read.   *)
(***************************************************************************)
Keys == {"OnP", "OffP"}

\* The container every family of containers below varies.
\* d_crf: the contrasts, the cluster ID of every row of the amplitude matrix,
\* and the matrix ('4Hz_amp'), one row per cluster and one column per contrast.
AmpRows == {<<1, 2, 3>>, <<3, 2, 1>>, <<0, 0, 4>>}

Ascending == [i \in 1..MaxID |-> i]

Descending == [i \in 1..MaxID |-> MaxID + 1 - i]

CrfTables ==
  {[contrast |-> <<5, 10, 20>>, cluster_id |-> ids, amp |-> amp] :
     ids \in {Ascending, Descending}, amp \in [1..MaxID -> AmpRows]}

\* The container every family of containers below varies.
BaseContainer ==
  [NOISE_GRID_SIZE |-> 30,
   d_sta |-> <<>>,
   d_main_IDs |-> [k \in Keys |-> <<>>],
   ls_RGC_labels |-> KeyOrder,
   d_crf |-> [contrast |-> <<5, 10, 20>>, cluster_id |-> Ascending,
              amp |-> [i \in 1..MaxID |-> <<1, 2, 3>>]],
   pct_refractory |-> <<>>, bad_isi_idx |-> <<>>, good_isi_idx |-> <<>>,
   str_experiment |-> "exp", str_chunk |-> "chunk"]

\* The refractory-violation percentages of the clusters, and every way of
\* listing some of the clusters as bad and some of the others as good.
PctArrays == {<<0, 1, 2, 10, 11, 12>>, <<7, 7, 1, 3>>}

\* The members of a set of numbers in ascending order.
RECURSIVE ascending_list(_)
ascending_list(S) ==
  IF S = {} THEN <<>>
  ELSE LET m == CHOOSE x \in S : \A y \in S : x <= y
       IN  <<m>> \o ascending_list(S \ {m})

IsiContainers ==
  UNION {{[BaseContainer EXCEPT !.pct_refractory = pct,
                                !.bad_isi_idx = ascending_list(bad),
                                !.good_isi_idx = ascending_list(good)] :
            bad \in SUBSET (0..(Len(pct) - 1)),
            good \in SUBSET (0..(Len(pct) - 1))} : pct \in PctArrays}

\* The limits of the axes add_identity is given, and those set later.
LimPairs == {<<lo, hi>> : lo \in 0..MaxLim, hi \in 0..MaxLim}

Lims == {l \in LimPairs : l[1] < l[2]}

GeomContainers == {[BaseContainer EXCEPT !.d_sta = F] : F \in FitMappings}

\* The lists of a cell type, and the mappings from cell type to list: the
\* container's own (types.d_main_IDs) and those a caller passes as d_IDs.
TypeLists == {l \in Lists : Len(l) <= MaxTypeLen}

MainMaps == {[k \in Keys |-> IF k = "OnP" THEN l ELSE <<1>>] : l \in TypeLists}

CallerMaps ==
  {[k \in Keys |-> IF k = "OnP" THEN l ELSE <<2>>] :
     l \in {t \in TypeLists : Len(t) < MaxTypeLen}}

TypeFitMappings ==
  UNION {[S -> {f \in FitSet : f.Theta < 90}] : S \in SUBSET IDs}

TypeContainers ==
  {[BaseContainer EXCEPT !.d_sta = F, !.d_main_IDs = m] :
     F \in TypeFitMappings, m \in MainMaps}

CrfContainers ==
  {[BaseContainer EXCEPT !.d_crf = t, !.d_main_IDs = m] :
     t \in CrfTables, m \in MainMaps}

\* ls_RGC_keys as callers give it: not at all, in an order of their own, or
\* with a cell type the mappings do not have.
KeyLists == {None, Some(<<"OffP", "OnP">>), Some(<<"OnP", "SBC">>)}

\* The axes a caller passes for the panels of ncols cell types.
CallerFigure(ncols) == Figure([i \in 1..ncols |-> CallerAxes], FALSE, FALSE)

\* The number of panels of a call: len(ls_RGC_keys) after the defaults.
ncols_of(data, ls_RGC_keys, d_IDs) ==
  IF ls_RGC_keys # None THEN Len(ls_RGC_keys[1])
  ELSE IF d_IDs # None THEN Len(keys_of(d_IDs[1]))
  ELSE Len(keys_of(data.d_main_IDs))

(***************************************************************************)
(* The calls.  A helper is called once, on the container of the state.     *)
(***************************************************************************)
NoCall == [fn |-> "none"]

NoRet == [status |-> "none"]

Idle == call = NoCall

Call_get_rf_ells ==
  /\ Idle
  /\ \E ls_cells \in Lists, g \in GridSizes, m \in SdMults :
       /\ call' = [fn |-> "get_rf_ells", ls_cells |-> ls_cells,
                   d_sta |-> container.d_sta, NOISE_GRID_SIZE |-> g, sd_mult |-> m]
       /\ ret' = get_rf_ells(ls_cells, container.d_sta, g, m)
  /\ UNCHANGED <<container, fig, identity>>

Call_plot_rfs ==
  /\ Idle
  /\ \E ls_cells \in Lists,
        ell_color \in {None} \cup {Some(c) : c \in Colors},
        ax \in {None, Some(CallerAxes)},
        facecolor \in FaceColors,
        SCALING \in {None} \cup {Some(s) : s \in Scalings},
        b_label \in BOOLEAN, b_zoom \in BOOLEAN :
     \E rnd \in IF ell_color = None THEN RandomColors ELSE {"unused"} :
       LET r == plot_rfs(container, ls_cells, ell_color, ax, SdMultDefault, Alpha, facecolor,
                         SCALING, b_label, b_zoom, Lw, rnd)
       IN  /\ call' = [fn |-> "plot_rfs", ls_cells |-> ls_cells,
                       ell_color |-> ell_color, ax |-> ax,
                       facecolor |-> facecolor, SCALING |-> SCALING,
                       b_label |-> b_label, b_zoom |-> b_zoom]
           /\ fig' = Figure(<<r.ax>>, FALSE, FALSE)
           /\ ret' = [status |-> r.status, ells |-> r.ells]
  /\ UNCHANGED <<container, identity>>

Call_plot_type_rfs ==
  /\ Idle
  /\ \E ls_RGC_keys \in KeyLists,
        d_IDs \in {None} \cup {Some(d) : d \in CallerMaps},
        own_axs \in BOOLEAN, b_ticks_off \in BOOLEAN, b_zoom \in BOOLEAN :
       LET axs == IF own_axs
                  THEN Some(CallerFigure(ncols_of(container, ls_RGC_keys, d_IDs)))
                  ELSE None
           r == plot_type_rfs(container, ls_RGC_keys, Palette, axs, None, Alpha,
                              b_ticks_off, None, d_IDs, b_zoom, SdMultDefault)
       IN  /\ call' = [fn |-> "plot_type_rfs", ls_RGC_keys |-> ls_RGC_keys,
                       d_IDs |-> d_IDs, axs |-> axs, b_ticks_off |-> b_ticks_off,
                       b_zoom |-> b_zoom]
           /\ fig' = r.fig
           /\ ret' = [status |-> r.status]
  /\ UNCHANGED <<container, identity>>

Call_plot_type_tcs ==
  /\ Idle
  /\ \E ls_RGC_keys \in KeyLists,
        d_IDs \in {None} \cup {Some(d) : d \in CallerMaps},
        own_axs \in BOOLEAN, b_plot_mean \in BOOLEAN :
       LET axs == IF own_axs
                  THEN Some(CallerFigure(ncols_of(container, ls_RGC_keys, d_IDs)))
                  ELSE None
           r == plot_type_tcs(container, ls_RGC_keys, axs, None, Alpha,
                              b_plot_mean, None, Lw, d_IDs)
       IN  /\ call' = [fn |-> "plot_type_tcs", ls_RGC_keys |-> ls_RGC_keys,
                       d_IDs |-> d_IDs, axs |-> axs, b_plot_mean |-> b_plot_mean]
           /\ fig' = r.fig
           /\ ret' = [status |-> r.status]
  /\ UNCHANGED <<container, identity>>

Call_plot_crf ==
  /\ Idle
  /\ \E ls_types \in {None, Some(<<"OffP">>), Some(<<"OnP", "SBC">>)},
        ax \in {None, Some(CallerAxes)} :
       LET r == plot_crf(container, ax, ls_types)
       IN  /\ call' = [fn |-> "plot_crf", ls_types |-> ls_types, ax |-> ax]
           /\ fig' = Figure(<<r.ax>>, FALSE, FALSE)
           /\ ret' = [status |-> r.status]
  /\ UNCHANGED <<container, identity>>

Call_plot_isi_qc ==
  /\ Idle
  /\ \E axs \in {None, Some(CallerFigure(2))} :
       LET r == plot_isi_qc(container, axs)
       IN  /\ call' = [fn |-> "plot_isi_qc", axs |-> axs]
           /\ fig' = r.fig
           /\ ret' = [status |-> r.status]
  /\ UNCHANGED <<container, identity>>

Call_add_identity ==
  /\ Idle
  /\ \E xlim \in Lims, ylim \in Lims :
       LET axes == [NewAxes EXCEPT !.xlim = xlim, !.ylim = ylim]
           r == add_identity(axes)
       IN  /\ call' = [fn |-> "add_identity", axes |-> axes]
           /\ fig' = Figure(<<r.axes>>, FALSE, FALSE)
           /\ identity' = Some(r.identity)
           /\ ret' = [status |-> "ok"]
  /\ UNCHANGED container

\* The caller, or anything else, sets the x limits of the axes afterwards.
Set_xlim ==
  /\ identity # None
  /\ \E lim \in Lims :
       LET r == process("xlim_changed", set_xlim(fig.panels[1], lim[1], lim[2]),
                        identity[1])
       IN  /\ call' = [fn |-> "set_xlim", lim |-> lim, before |-> fig.panels[1]]
           /\ fig' = [fig EXCEPT !.panels[1] = r.axes]
           /\ identity' = Some(r.identity)
  /\ UNCHANGED <<container, ret>>

Set_ylim ==
  /\ identity # None
  /\ \E lim \in Lims :
       LET r == process("ylim_changed", set_ylim(fig.panels[1], lim[1], lim[2]),
                        identity[1])
       IN  /\ call' = [fn |-> "set_ylim", lim |-> lim, before |-> fig.panels[1]]
           /\ fig' = [fig EXCEPT !.panels[1] = r.axes]
           /\ identity' = Some(r.identity)
  /\ UNCHANGED <<container, ret>>

InitGeom ==
  /\ container \in GeomContainers
  /\ call = NoCall
  /\ fig = NoFigure
  /\ ret = NoRet
  /\ identity = None

NextGeom ==
  \/ Call_get_rf_ells
  \/ Call_plot_rfs

SpecGeom == InitGeom /\ [][NextGeom]_vars

InitTypes ==
  /\ container \in TypeContainers
  /\ call = NoCall
  /\ fig = NoFigure
  /\ ret = NoRet
  /\ identity = None

NextTypes ==
  \/ Call_plot_type_rfs
  \/ Call_plot_type_tcs

SpecTypes == InitTypes /\ [][NextTypes]_vars

InitBands ==
  /\ container \in TypeContainers \cup CrfContainers
  /\ call = NoCall
  /\ fig = NoFigure
  /\ ret = NoRet
  /\ identity = None

NextBands ==
  \/ Call_plot_crf
  \/ Call_plot_type_tcs

SpecBands == InitBands /\ [][NextBands]_vars

InitIsi ==
  /\ container \in IsiContainers
  /\ call = NoCall
  /\ fig = NoFigure
  /\ ret = NoRet
  /\ identity = None

NextIsi == Call_plot_isi_qc

SpecIsi == InitIsi /\ [][NextIsi]_vars

InitIdentity ==
  /\ container = BaseContainer
  /\ call = NoCall
  /\ fig = NoFigure
  /\ ret = NoRet
  /\ identity = None

NextIdentity ==
  \/ Call_add_identity
  \/ Set_xlim
  \/ Set_ylim

SpecIdentity == InitIdentity /\ [][NextIdentity]_vars

(***************************************************************************)
(* Properties of get_rf_ells and plot_rfs (checked under SpecGeom).        *)
(***************************************************************************)
AllFitted(ls_cells, d_sta) ==
  \A i \in 1..Len(ls_cells) : ls_cells[i] \in DOMAIN d_sta

\* The panel plot_rfs drew on.
Panel == fig.panels[1]

\* The axes plot_rfs started from: the caller's, or the new one it made.
StartAxes == IF call.ax = None THEN NewAxes ELSE call.ax[1]

\* The scale plot_rfs gave the centres.
UsedScaling ==
  IF call.SCALING = None THEN container.NOISE_GRID_SIZE ELSE call.SCALING[1]

\* C1: when every ID of the list has a fit, get_rf_ells returns one ellipse per
\* entry of the list, in the list's order and with its duplicates, the i-th
\* built from the fit of the i-th ID: centre (x0*g, y0*g), width SigmaX*2*g*m,
\* height SigmaY*2*g*m, angle Theta.
C1_OneEllipsePerEntry ==
  (call.fn = "get_rf_ells" /\ AllFitted(call.ls_cells, call.d_sta)) =>
    /\ ret.status = "ok"
    /\ Len(ret.ells) = Len(call.ls_cells)
    /\ \A i \in 1..Len(call.ls_cells) :
         LET f == call.d_sta[call.ls_cells[i]]
             g == call.NOISE_GRID_SIZE
             m == call.sd_mult
         IN  /\ ret.ells[i].center[1] = f.x0 * g
             /\ ret.ells[i].center[2] = f.y0 * g
             /\ ret.ells[i].width = f.SigmaX * 2 * g * m
             /\ ret.ells[i].height = f.SigmaY * 2 * g * m
             /\ ret.ells[i].angle = f.Theta

\* A list with a repeated ID around another one, all fitted differently.
C1_Witness ==
  /\ call.fn = "get_rf_ells"
  /\ ret.status = "ok"
  /\ Len(call.ls_cells) = 3
  /\ call.ls_cells[1] = call.ls_cells[3]
  /\ call.ls_cells[1] # call.ls_cells[2]
  /\ ret.ells[1] # ret.ells[2]
  /\ ret.ells[1].center[1] # ret.ells[1].center[2]
  /\ ret.ells[1].width # ret.ells[1].height

\* C2: an ID without a fit ends get_rf_ells, and plot_rfs, in a KeyError with
\* no ellipse list returned; plot_rfs has then added no ellipse to the axes.
C2_MissingFitIsKeyError ==
  /\ (call.fn = "get_rf_ells" /\ ~AllFitted(call.ls_cells, call.d_sta)) =>
       (ret.status = "KeyError" /\ ret.ells = <<>>)
  /\ (call.fn = "plot_rfs" /\ ~AllFitted(call.ls_cells, container.d_sta)) =>
       /\ ret.status = "KeyError"
       /\ ret.ells = <<>>
       /\ Panel.artists = StartAxes.artists

\* plot_rfs on a list whose first IDs are fitted and whose last is not.
C2_Witness ==
  /\ call.fn = "plot_rfs"
  /\ Len(call.ls_cells) = 3
  /\ call.ls_cells[1] \in DOMAIN container.d_sta
  /\ call.ls_cells[3] \notin DOMAIN container.d_sta
  /\ ret.status = "KeyError"

\* C3: after plot_rfs returns with b_zoom and a non-empty list, the x range is
\* [least centre x - 400, greatest centre x + 400] and the y range likewise,
\* whatever the limits were before and with or without SCALING.
C3_ZoomBounds ==
  (call.fn = "plot_rfs" /\ ret.status = "ok" /\ call.b_zoom
     /\ Len(call.ls_cells) > 0) =>
    LET xs == {container.d_sta[call.ls_cells[i]].x0 * UsedScaling :
                 i \in 1..Len(call.ls_cells)}
        ys == {container.d_sta[call.ls_cells[i]].y0 * UsedScaling :
                 i \in 1..Len(call.ls_cells)}
    IN  /\ Panel.xlim[1] + 400 \in xs /\ \A x \in xs : Panel.xlim[1] + 400 <= x
        /\ Panel.xlim[2] - 400 \in xs /\ \A x \in xs : Panel.xlim[2] - 400 >= x
        /\ Panel.ylim[1] + 400 \in ys /\ \A y \in ys : Panel.ylim[1] + 400 <= y
        /\ Panel.ylim[2] - 400 \in ys /\ \A y \in ys : Panel.ylim[2] - 400 >= y

\* A zoom onto two different centres, on a caller's axes, with SCALING given.
C3_Witness ==
  /\ call.fn = "plot_rfs"
  /\ ret.status = "ok"
  /\ call.b_zoom
  /\ call.ax # None
  /\ call.SCALING # None
  /\ Len(ret.ells) = 2
  /\ ret.ells[1].center[1] < ret.ells[2].center[1]
  /\ ret.ells[1].center[2] > ret.ells[2].center[2]
  /\ Panel.xlim # StartAxes.xlim

\* C4: plot_rfs with an empty list returns normally with no ellipses even with
\* b_zoom: the limits are (0, 5000) without SCALING and, with SCALING, those
\* the axes had when the call began.
C4_EmptyListSkipsZoom ==
  (call.fn = "plot_rfs" /\ call.ls_cells = <<>>) =>
    /\ ret.status = "ok"
    /\ ret.ells = <<>>
    /\ Panel.artists = StartAxes.artists
    /\ call.SCALING = None =>
         (Panel.xlim = <<0, 5000>> /\ Panel.ylim = <<0, 5000>>)
    /\ call.SCALING # None =>
         (Panel.xlim = StartAxes.xlim /\ Panel.ylim = StartAxes.ylim)

\* The empty list with b_zoom, on a caller's axes with SCALING given.
C4_Witness ==
  /\ call.fn = "plot_rfs"
  /\ call.ls_cells = <<>>
  /\ call.b_zoom
  /\ call.ax # None
  /\ call.SCALING # None
  /\ ret.status = "ok"
  /\ Panel.xlim = <<-7, 9>>

(***************************************************************************)
(* Properties of plot_type_rfs and plot_type_tcs (checked under SpecTypes).*)
(***************************************************************************)
\* The cell types of the call, in the order of their panels.
TypeKeys ==
  IF call.ls_RGC_keys = None THEN <<"OnP", "OffP">> ELSE call.ls_RGC_keys[1]

\* The mapping the caller means the call to use.
GivenIDs == IF call.d_IDs = None THEN container.d_main_IDs ELSE call.d_IDs[1]

\* The IDs of a list that have a fit in the container, in the list's order.
RECURSIVE OnlyFitted(_)
OnlyFitted(l) ==
  IF l = <<>> THEN <<>>
  ELSE (IF l[1] \in DOMAIN container.d_sta THEN <<l[1]>> ELSE <<>>)
       \o OnlyFitted(Tail(l))

\* The loop reaches key i: no key up to it is missing from the mapping.
Reaches(i, ids) == \A j \in 1..i : TypeKeys[j] \in DOMAIN ids

\* C5: in plot_type_rfs the ellipses of a key's panel are those of the IDs of
\* d_IDs[key] that have a fit, in their order; the call never fails on a
\* cluster without a fit (only on a key the mapping lacks); and the n of the
\* panel's title is the number of ellipses on the panel.
C5_PanelsShowFittedCells ==
  call.fn = "plot_type_rfs" =>
    /\ ret.status = "ok" <=> Reaches(Len(TypeKeys), GivenIDs)
    /\ ret.status \in {"ok", "KeyError"}
    /\ \A i \in 1..Len(TypeKeys) :
         Reaches(i, GivenIDs) =>
           LET want == OnlyFitted(GivenIDs[TypeKeys[i]])
               p == fig.panels[i]
               g == container.NOISE_GRID_SIZE
           IN  /\ Len(p.artists) = Len(want)
               /\ \A j \in 1..Len(want) :
                    LET f == container.d_sta[want[j]]
                    IN  /\ p.artists[j].ell.center = <<f.x0 * g, f.y0 * g>>
                        /\ p.artists[j].ell.width = f.SigmaX * 2 * g * 13
                        /\ p.artists[j].ell.angle = f.Theta
               /\ p.title = TypeKeys[i] \o " (n=" \o Digit[Len(p.artists) + 1]
                              \o ") RFs"

\* A type of two clusters of which only the second has a fit, and a second
\* type of which no cluster has one.
C5_Witness ==
  /\ call.fn = "plot_type_rfs"
  /\ ret.status = "ok"
  /\ Len(GivenIDs[TypeKeys[1]]) = 2
  /\ GivenIDs[TypeKeys[1]][1] \notin DOMAIN container.d_sta
  /\ Len(fig.panels[1].artists) = 1
  /\ fig.panels[1].title = "OnP (n=1) RFs"
  /\ fig.panels[2].title = "OffP (n=0) RFs"

\* The waveforms drawn on a panel in the trace mode, in the order drawn.
TraceData(p) == [j \in 1..(Len(p.lines) - 1) |-> p.lines[j + 1].y]

\* The waveforms of a list of clusters: red, then blue, cluster by cluster.
RECURSIVE Waveforms(_)
Waveforms(l) ==
  IF l = <<>> THEN <<>>
  ELSE <<container.d_sta[l[1]].RedTimeCourse,
         container.d_sta[l[1]].BlueTimeCourse>> \o Waveforms(Tail(l))

\* C6: plot_type_tcs with a d_IDs of the caller draws, on the panel of key k,
\* the clusters of d_IDs[k] that have a fit (as plot_type_rfs does); the
\* container's d_main_IDs is used only when d_IDs is None.
C6_CallerMappingIsUsed ==
  call.fn = "plot_type_tcs" =>
    \A i \in 1..Len(TypeKeys) :
      (Reaches(i, GivenIDs) /\ i <= Len(fig.panels) /\ fig.panels[i].title # "") =>
        LET want == OnlyFitted(GivenIDs[TypeKeys[i]])
            p == fig.panels[i]
        IN  /\ p.title = TypeKeys[i] \o " (n=" \o Digit[Len(want) + 1]
                           \o ") timecourses"
            /\ ~call.b_plot_mean => TraceData(p) = Waveforms(want)

\* The list line 201 reads for a key.
MainList(k) == container.d_main_IDs[k]

\* The first panel whose group is empty after the filter, if the loop reaches
\* it; 0 if there is none.
FirstEmpty ==
  LET E == {i \in 1..Len(TypeKeys) :
              /\ Reaches(i, container.d_main_IDs)
              /\ OnlyFitted(MainList(TypeKeys[i])) = <<>>}
  IN  IF E = {} THEN 0 ELSE CHOOSE i \in E : \A j \in E : i <= j

\* C7: in the mean mode a type that has no cluster left after the filter ends
\* plot_type_tcs in a fault, returning no axes, with the panels of the earlier
\* types drawn; in the trace mode the same type gets a panel titled n=0 with no
\* trace, and the call goes on.
C7_EmptyGroupFaultsInMeanMode ==
  (call.fn = "plot_type_tcs" /\ FirstEmpty > 0) =>
    /\ call.b_plot_mean =>
         /\ ret.status \notin {"ok", "none"}
         /\ \A j \in 1..(FirstEmpty - 1) :
              /\ fig.panels[j].title =
                   TypeKeys[j] \o " (n="
                     \o Digit[Len(OnlyFitted(MainList(TypeKeys[j]))) + 1]
                     \o ") timecourses"
              /\ Len(fig.panels[j].fills) = 2
         /\ fig.panels[FirstEmpty].title = ""
         /\ fig.panels[FirstEmpty].fills = <<>>
    /\ ~call.b_plot_mean =>
         /\ fig.panels[FirstEmpty].title = TypeKeys[FirstEmpty] \o " (n=0) timecourses"
         /\ TraceData(fig.panels[FirstEmpty]) = <<>>
         /\ Reaches(Len(TypeKeys), container.d_main_IDs) => ret.status = "ok"

\* The mean mode with a first type that has a fitted cluster and a second that
\* has none.
C7_Witness ==
  /\ call.fn = "plot_type_tcs"
  /\ call.b_plot_mean
  /\ FirstEmpty = 2
  /\ ret.status = "TypeError"
  /\ fig.panels[1].title = "OnP (n=2) timecourses"
  /\ fig.panels[2].title = ""

(***************************************************************************)
(* Properties of the bands of plot_crf and plot_type_tcs (under SpecBands).*)
(***************************************************************************)
RECURSIVE SumSeq(_)
SumSeq(xs) == IF xs = <<>> THEN 0 ELSE xs[1] + SumSeq(Tail(xs))

\* m is the arithmetic mean of the numbers xs.
IsMeanOf(m, xs) == m.den # 0 /\ m.num * Len(xs) = m.den * SumSeq(xs)

\* v is the population variance of xs: (n * sum of squares - square of the
\* sum) / n^2, so that its square root is the population standard deviation.
IsPopVarOf(v, xs) ==
  LET n == Len(xs)
      S == SumSeq(xs)
      Q == SumSeq([i \in 1..n |-> xs[i] * xs[i]])
  IN  v.den # 0 /\ v.num * n * n = v.den * (n * Q - S * S)

\* A line and a band show the column-wise mean and deviation of the rows.
IsBandOf(line, fill, rows, ncols) ==
  /\ Len(line.y) = ncols
  /\ fill.mean = line.y
  /\ \A j \in 1..ncols :
       LET xs == [r \in 1..Len(rows) |-> rows[r][j]]
       IN  IsMeanOf(line.y[j], xs) /\ IsPopVarOf(fill.std[j].sqrt_of, xs)

\* A rational that is the whole number k.
IsNumber(q, k) == q.den # 0 /\ q.num = k * q.den

\* The types plot_crf was asked for.
CrfTypes ==
  IF call.ls_types = None THEN container.ls_RGC_labels ELSE call.ls_types[1]

\* The rows of the amplitude matrix that belong to the clusters ids.
RowsOf(ids) ==
  [r \in 1..Len(ids) |->
     container.d_crf.amp[CHOOSE p \in 1..Len(container.d_crf.cluster_id) :
                           container.d_crf.cluster_id[p] = ids[r]]]

\* C9: the line and band of a group are the column-wise mean and mean -/+
\* population standard deviation of exactly the group's rows: in plot_crf the
\* rows of the amplitude matrix at the type's cluster IDs, in plot_type_tcs
\* (mean mode) the red and the blue waveforms of the group.  Rows [1,2,3] and
\* [3,2,1] give mean [2,2,2] and deviation [1,0,1].
C9_BandsAreMeanAndDeviation ==
  /\ call.fn = "plot_crf" =>
       \A i \in 1..Len(Panel.lines) :
         LET ids == container.d_main_IDs[CrfTypes[i]]
             rows == RowsOf(ids)
         IN  ids # <<>> =>
               /\ IsBandOf(Panel.lines[i], Panel.fills[i], rows, 3)
               /\ Panel.lines[i].x = container.d_crf.contrast
               /\ {rows[r] : r \in 1..Len(rows)} = {<<1, 2, 3>>, <<3, 2, 1>>}
                    /\ Len(rows) = 2 =>
                    /\ \A j \in 1..3 : IsNumber(Panel.lines[i].y[j], 2)
                    /\ IsNumber(Panel.fills[i].std[1].sqrt_of, 1)
                    /\ IsNumber(Panel.fills[i].std[2].sqrt_of, 0)
                    /\ IsNumber(Panel.fills[i].std[3].sqrt_of, 1)
  /\ (call.fn = "plot_type_tcs" /\ call.b_plot_mean) =>
       \A i \in 1..Len(fig.panels) :
         fig.panels[i].title # "" =>
           LET group == OnlyFitted(MainList(TypeKeys[i]))
               p == fig.panels[i]
               red == [r \in 1..Len(group) |->
                         container.d_sta[group[r]].RedTimeCourse]
               blue == [r \in 1..Len(group) |->
                          container.d_sta[group[r]].BlueTimeCourse]
           IN  /\ Len(p.lines) = 3 /\ Len(p.fills) = 2
               /\ IsBandOf(p.lines[2], p.fills[1], red, 3)
               /\ IsBandOf(p.lines[3], p.fills[2], blue, 3)

\* plot_crf for a type of two clusters whose rows are [1,2,3] and [3,2,1] in a
\* matrix that holds them in the other order.
C9_Witness ==
  /\ call.fn = "plot_crf"
  /\ ret.status = "ok"
  /\ call.ls_types = None
  /\ container.d_main_IDs["OnP"] = <<1, 2>>
  /\ container.d_crf.cluster_id = <<2, 1>>
  /\ container.d_crf.amp = <<<<3, 2, 1>>, <<1, 2, 3>>>>
  /\ Panel.lines[1].y = <<Rat(4, 2), Rat(4, 2), Rat(4, 2)>>
  /\ IsNumber(Panel.fills[1].std[1].sqrt_of, 1)
  /\ Panel.lines[2].y = <<Rat(1, 1), Rat(2, 1), Rat(3, 1)>>

(***************************************************************************)
(* Properties of plot_isi_qc (checked under SpecIsi).                      *)
(***************************************************************************)
\* The percentages of the clusters at the 0-based indices idx.
PctAt(idx) == [i \in 1..Len(idx) |-> container.pct_refractory[idx[i] + 1]]

\* The k-th smallest of the numbers xs, counted with their repetitions.
Kth(xs, k) ==
  CHOOSE v \in {xs[i] : i \in 1..Len(xs)} :
    /\ Cardinality({i \in 1..Len(xs) : xs[i] < v}) < k
    /\ k <= Cardinality({i \in 1..Len(xs) : xs[i] <= v})

\* q is the median of the numbers xs, of which there is at least one.
IsMedianOf(q, xs) ==
  LET n == Len(xs)
  IN  /\ q.den # 0
      /\ IF n % 2 = 1
         THEN q.num = q.den * Kth(xs, (n + 1) \div 2)
         ELSE 2 * q.num = q.den * (Kth(xs, n \div 2) + Kth(xs, (n \div 2) + 1))

\* The median line of a panel of plot_isi_qc.
MedianLine(p) == p.lines[Len(p.lines)].axvline

\* C8: panel 0 of plot_isi_qc marks the median of the percentages at
\* bad_isi_idx and panel 1 that of the percentages at good_isi_idx, each over
\* its own index set only, and the titles give len(bad_isi_idx) and
\* len(good_isi_idx).
C8_MediansPerIndexSet ==
  call.fn = "plot_isi_qc" =>
    /\ container.bad_isi_idx # <<>> =>
         IsMedianOf(MedianLine(fig.panels[1]), PctAt(container.bad_isi_idx))
    /\ container.good_isi_idx # <<>> =>
         IsMedianOf(MedianLine(fig.panels[2]), PctAt(container.good_isi_idx))
    /\ fig.panels[1].hist[1].data = PctAt(container.bad_isi_idx)
    /\ fig.panels[2].hist[1].data = PctAt(container.good_isi_idx)
    /\ fig.panels[1].title =
         "ISI violations n = " \o Digit[Len(container.bad_isi_idx) + 1]
    /\ fig.panels[2].title =
         "ISI OK n = " \o Digit[Len(container.good_isi_idx) + 1]

\* The percentages [0,1,2,10,11,12] with bad [3,4,5] and good [0,1,2]: the
\* medians are 11 and 1 and both counts are 3.
C8_Witness ==
  /\ call.fn = "plot_isi_qc"
  /\ container.pct_refractory = <<0, 1, 2, 10, 11, 12>>
  /\ container.bad_isi_idx = <<3, 4, 5>>
  /\ container.good_isi_idx = <<0, 1, 2>>
  /\ MedianLine(fig.panels[1]) = Rat(11, 1)
  /\ MedianLine(fig.panels[2]) = Rat(1, 1)
  /\ fig.panels[1].texts[Len(fig.panels[1].texts)].s = "Median = 11.00%"
  /\ fig.panels[1].title = "ISI violations n = 3"
  /\ fig.panels[2].title = "ISI OK n = 3"

(***************************************************************************)
(* Properties of add_identity (checked under SpecIdentity).                *)
(***************************************************************************)
\* C10: once add_identity has run, and after every later change of the x or
\* the y limits, the identity line goes from (low, low) to (high, high) with
\* low the greater of the two lower limits and high the lesser of the two
\* upper limits; and a change of limits leaves the axes with exactly the
\* limits asked for: the callback changes nothing but the line.
C10_IdentitySpansCommonRange ==
  identity # None =>
    LET low == identity[1].data.xdata[1]
        high == identity[1].data.xdata[2]
    IN  /\ identity[1].data.ydata = identity[1].data.xdata
        /\ low \in {Panel.xlim[1], Panel.ylim[1]}
        /\ low >= Panel.xlim[1] /\ low >= Panel.ylim[1]
        /\ high \in {Panel.xlim[2], Panel.ylim[2]}
        /\ high <= Panel.xlim[2] /\ high <= Panel.ylim[2]
        /\ call.fn = "add_identity" => Panel = call.axes
        /\ call.fn = "set_xlim" =>
             Panel = [call.before EXCEPT !.xlim = call.lim]
        /\ call.fn = "set_ylim" =>
             Panel = [call.before EXCEPT !.ylim = call.lim]

\* The y limits were changed after add_identity had run, and the two ranges no
\* longer overlap: the line runs from the greater lower limit back to the
\* lesser upper limit.
C10_Witness ==
  /\ identity # None
  /\ call.fn = "set_ylim"
  /\ call.before.ylim = <<0, 4>>
  /\ Panel.xlim = <<0, 1>>
  /\ Panel.ylim = <<2, 3>>
  /\ identity[1].data.xdata = <<2, 1>>

====
